---- MODULE Spec2Model ----
(***************************************************************************)
(* ActiveWindowMonitor (src/unnamed/part_000, lines 448-642) together with *)
(* the MouseChecker activity sampler (src/MouseChecker.ts).                *)
(*                                                                         *)
(* One action per entry point of the event loop: the public methods        *)
(* start(), stop(), destroy(); a tick of a MouseChecker interval; the idle *)
(* timer; a check timer (the one whose handle is in checkTimeout, or one   *)
(* whose handle was overwritten); and the settlement of a Window Query,    *)
(* which runs the rest of check() (resolve) or its catch block (reject).   *)
(* JavaScript runs each of them to completion, so each is one step.        *)
(***************************************************************************)
EXTENDS Integers, Sequences, FiniteSets

VARIABLES
    currentState,          \* part_000:478  "undefined" | "start" | "stop"
    lastWindow,            \* part_000:479  [id, url] of the last reported window
    isUserAwake,           \* part_000:480  "undefined" | "true" | "false" | "null"
    checkTimeout,          \* part_000:481  TRUE iff the timer of this handle is pending
    leakedCheckTimers,     \* pending setTimeout(run) timers whose handle was overwritten
    idleTimeout,           \* part_000:482  TRUE iff the timer of this handle is pending
    lastError,             \* part_000:483  the remembered rejection value
    checkOnce,             \* number of once('check') listeners registered by run()
    outstanding,           \* number of Window Queries issued and not yet settled
    mouseListener,         \* awakeUser is subscribed to 'mousemove' (part_000:495)
    mousePositionInterval, \* MouseChecker.ts:6  TRUE iff the interval of this handle runs
    leakedIntervals,       \* TRUE iff an interval runs whose handle was overwritten
    lastMousePos,          \* MouseChecker.ts:5
    out,                   \* events passed to emit() by the latest step, in order
    op,                    \* the latest step and its input
    hist                   \* what earlier steps did (observation only); a run
                           \* keeps the fields of one group, named by watch, and
                           \* leaves the others as they began:
                           \*   watch        "errors": remembered .. stopCalled; "idle":
                           \*                idle .. since; "signals": credit; "none": no
                           \*                field; the others:
                           \*                reset .. repeat, where
                           \*                "changes" counts every reset of lastWindow,
                           \*                "restart", "idleReset" and "inactive" one kind
                           \*   remembered   an error was stored (line 604) and not cleared (594)
                           \*   prevReject   the value of the latest settlement if it rejected
                           \*   prevFresh    that value differed from the error remembered then
                           \*   prevEmitted  that rejection emitted 'error'
                           \*   accepted     -1 before any rejection; else the gated iterations
                           \*                with a window since the latest one (at most 2)
                           \*   beforeReject lastWindow when the latest rejection arrived
                           \*   stopCalled   stop() or destroy() was called
                           \*   reset        lastWindow was reset, in a way the run counts,
                           \*                since the latest gated iteration with a window
                           \*   first        the latest step was a gated iteration with a
                           \*                window, and reset held when it began
                           \*   wcId         the id of the latest 'windowchange' (0: none yet)
                           \*   repeat       the latest step emitted 'windowchange' and the
                           \*                one before it carried the same id
                           \*   idle         "emitted": 'idle' was emitted and no activity
                           \*                signal came since; "signalled": one came but no
                           \*                'awake' was emitted since; "no" otherwise
                           \*   due          ticks of the clock until the pending idle timer
                           \*                fires (-1: none is pending)
                           \*   since        ticks of the clock since the latest activity
                           \*                signal that found the gate Idle or Consumed
                           \*                (-1: none yet; at most IdleAfter + 1)
                           \*   credit       the activity signals that moved the gate to Awake,
                           \*                counted up to MaxCredit, less one for each
                           \*                iteration since that emitted 'windowchange',
                           \*                'windoworurlchange' or 'windowinactive': never
                           \*                more than the signals less the iterations

vars == << currentState, lastWindow, isUserAwake, checkTimeout, leakedCheckTimers,
           idleTimeout, lastError, checkOnce, outstanding, mouseListener,
           mousePositionInterval, leakedIntervals, lastMousePos, out, op, hist >>

(***************************************************************************)
(* Bounds of the model.                                                    *)
(***************************************************************************)
MaxOutstanding == 2     \* run() is not entered with this many queries in flight
MaxLeaked == 1          \* start() is not called with more listeners + lost timers
MaxWinId == 2           \* window ids are 1..MaxWinId
MaxCredit == 2          \* hist.credit does not count beyond this

\* idleAfter, in ticks of the clock of the runs that keep time.
IdleAfter == 2

(***************************************************************************)
(* Values.                                                                 *)
(***************************************************************************)
Undefined == "undefined"

Urls == {Undefined, "u1"}

Windows == [id : 1..MaxWinId, url : Urls]

\* The query resolved with no window (a falsy activeWinResult).
Nothing == [id |-> 0, url |-> Undefined]

\* lastWindow before the first setDefaults()/resetLastWindow(): the field is unset.
Unset == [id |-> -2, url |-> Undefined]

QueryResults == Windows \cup {Nothing}

\* Rejection values: two strings, the empty object {} and an Error instance.
Payloads ==
    { [kind |-> "string", v |-> "E1"], [kind |-> "string", v |-> "E2"],
      [kind |-> "object", v |-> ""], [kind |-> "Error", v |-> "a"] }

NoErr == [kind |-> "none", v |-> ""]

\* Cursor positions <<x, y>>: from one to another either both coordinates
\* change, or one, or none.
Positions == { << 0, 0 >>, << 0, 1 >>, << 1, 1 >> }

NoPos == << -1, -1 >>

Ev(name) == [ev |-> name, win |-> Nothing, err |-> NoErr]

EvWin(name, w) == [ev |-> name, win |-> w, err |-> NoErr]

EvErr(p) == [ev |-> "error", win |-> Nothing, err |-> p]

Op(name) == [name |-> name, win |-> Nothing, err |-> NoErr]

(***************************************************************************)
(* Pure helpers of the Monitor.                                            *)
(***************************************************************************)
\* resetLastWindow(): the sentinel snapshot.
resetLastWindow == [id |-> -1, url |-> Undefined]

\* private lastError = {}
InitialError == [kind |-> "object", v |-> ""]

\* json-stringify-safe as check() uses it: a string is quoted, an object is
\* serialised by its own enumerable properties (none for {} and for an Error),
\* and undefined is not serialised at all (the result is undefined, no string).
stringify(p) ==
    CASE p.kind = "string" -> "\"" \o p.v \o "\""
      [] p.kind = "object" -> "{}"
      [] p.kind = "Error" -> "{}"
      [] OTHER -> Undefined

\* activeWindowChanged answering that every window is another one.
alwaysChanged(w, last) == TRUE

activeWindowChanged(w, last) == w.id # last.id

\* activeWindowOrUrlChanged with the comparison of the ids left out.
onlyUrlChanged(w, last) == w.url # last.url

activeWindowOrUrlChanged(w, last) ==
    LET urlChanged == w.url # last.url
        windowChanged == w.id # last.id
    IN  urlChanged \/ windowChanged

\* emit('check') runs every once('check') listener registered by run(): each
\* does checkTimeout = setTimeout(run), so each one after the first overwrites
\* the handle of a timer that stays pending, and so does the first when the
\* handle it overwrites is of a pending timer.
EmitCheck(tracked, leaked, listeners) ==
    IF listeners = 0
    THEN [tracked |-> tracked, leaked |-> leaked]
    ELSE [tracked |-> TRUE,
          leaked |-> leaked + (listeners - 1) + (IF tracked THEN 1 ELSE 0)]

\* Consumed leaving the flag as the gate found it.
stillAwake == "true"

\* this.isUserAwake = null;  -- the flag after a gated iteration.
Consumed == "null"

\* Gate with the early return of line 571 left out.
GateAlwaysOpen == TRUE

\* if (!this.isUserAwake) return;  -- the iteration goes on only when this holds.
Gate == isUserAwake = "true"

\* CatchEvents with the emit('check') of line 599 left out.
CatchEventsNoCheck(p, isNew) ==
    IF isNew THEN << EvErr(p) >> ELSE << >>

\* The events of the catch block: emit('check'), then 'error' for a new error.
CatchEvents(p, isNew) ==
    IF isNew THEN << Ev("check"), EvErr(p) >> ELSE << Ev("check") >>

\* The events of idleUser(): 'idle' only if the Monitor is RUNNING.
IdleEvents(state) == IF state = "start" THEN << Ev("idle") >> ELSE << >>

\* NextLastWindow with the resetLastWindow() of line 576 left out.
NextLastWindowKept(w, last) ==
    IF w = Nothing THEN last
    ELSE IF activeWindowOrUrlChanged(w, last) THEN w
    ELSE last

\* lastWindow after the gated part of check() for query result w.
NextLastWindow(w, last) ==
    IF w = Nothing THEN resetLastWindow
    ELSE IF activeWindowOrUrlChanged(w, last) THEN w
    ELSE last

\* ChangeEvents emitting 'windowchange' before 'windoworurlchange'.
ChangeEventsSwapped(w, last) ==
    IF w = Nothing
    THEN << EvWin("windowinactive", Nothing) >>
    ELSE IF activeWindowOrUrlChanged(w, last)
         THEN IF activeWindowChanged(w, last)
              THEN << EvWin("windowchange", w), EvWin("windoworurlchange", w) >>
              ELSE << EvWin("windoworurlchange", w) >>
         ELSE << >>

\* The events of the gated part of check() for query result w (lines 574-592).
ChangeEvents(w, last) ==
    IF w = Nothing
    THEN << EvWin("windowinactive", Nothing) >>
    ELSE IF activeWindowOrUrlChanged(w, last)
         THEN IF activeWindowChanged(w, last)
              THEN << EvWin("windoworurlchange", w), EvWin("windowchange", w) >>
              ELSE << EvWin("windoworurlchange", w) >>
         ELSE << >>

\* The history as the next step finds it: first and repeat tell of the latest
\* step only.
Past == [hist EXCEPT !.first = FALSE, !.repeat = FALSE]

\* The fields of the history that a run watching group g keeps.
Watched(g) ==
    CASE g = "errors" -> {"remembered", "prevReject", "prevFresh", "prevEmitted",
                          "accepted", "beforeReject", "stopCalled"}
      [] g = "idle" -> {"idle", "due", "since"}
      [] g = "signals" -> {"credit"}
      [] g = "none" -> {}
      [] OTHER -> {"reset", "first", "wcId", "repeat"}

\* The resets of lastWindow that a run watching group g counts: "start" and
\* "restart" are start() of a Monitor that was not, or was, STOPPED; "idle" and
\* "idleStopped" the idle timer firing while RUNNING, or not; "reject" a
\* rejection; "inactive" a gated iteration with no window.
Kinds(g) ==
    CASE g = "changes" -> {"start", "restart", "idle", "idleStopped", "reject",
                           "inactive"}
      [] g = "restart" -> {"restart"}
      [] g = "idleReset" -> {"idle"}
      [] g = "inactive" -> {"inactive"}
      [] OTHER -> {}

Counts(kind) == kind \in Kinds(hist.watch)

\* History h with the fields that are not watched left as they are.
Record(h) ==
    LET kept == Watched(hist.watch)
    IN  [f \in DOMAIN h |-> IF f \in kept THEN h[f] ELSE hist[f]]

\* The state after new ActiveWindowMonitor(), observed by group g.
Construct(g) ==
    /\ currentState = Undefined
    /\ lastWindow = Unset
    /\ isUserAwake = Undefined
    /\ checkTimeout = FALSE
    /\ leakedCheckTimers = 0
    /\ idleTimeout = FALSE
    /\ lastError = InitialError
    /\ checkOnce = 0
    /\ outstanding = 0
    /\ mouseListener = TRUE
    /\ mousePositionInterval = FALSE
    /\ leakedIntervals = FALSE
    /\ lastMousePos = NoPos
    /\ out = << >>
    /\ op = Op("init")
    /\ hist = [watch |-> g,
               remembered |-> FALSE, prevReject |-> NoErr, prevFresh |-> FALSE,
               prevEmitted |-> FALSE, accepted |-> -1, beforeReject |-> Unset,
               stopCalled |-> FALSE, reset |-> FALSE, first |-> FALSE, wcId |-> 0,
               repeat |-> FALSE, idle |-> "no", due |-> -1, since |-> -1,
               credit |-> 0]

Init == Construct("errors")

InitChanges == Construct("changes")

InitRestart == Construct("restart")

InitIdleReset == Construct("idleReset")

InitInactive == Construct("inactive")

InitIdle == Construct("idle")

InitSignals == Construct("signals")

InitPlain == Construct("none")


(***************************************************************************)
(* Steps shared by several entry points.                                   *)
(***************************************************************************)
\* run(): returns at once unless the state is START; otherwise registers a
\* once('check') listener and calls check(), which issues the Window Query.
\* 'timers' is the state of the check timers when run() is entered.
run(state, timers) ==
    /\ checkTimeout' = timers.tracked
    /\ leakedCheckTimers' = timers.leaked
    /\ IF state = "start"
       THEN /\ outstanding < MaxOutstanding
            /\ checkOnce' = checkOnce + 1
            /\ outstanding' = outstanding + 1
       ELSE UNCHANGED << checkOnce, outstanding >>

\* notAwake holding whatever the flag is.
anyFlag == TRUE

\* if (!this.isUserAwake): the flag is false, null or undefined.
notAwake == isUserAwake # "true"

\* awakeUser with the setTimeout of line 531 left out.
awakeUserNoTimer ==
    IF notAwake
    THEN /\ out' = IF isUserAwake = "false" THEN << Ev("awake") >> ELSE << >>
         /\ isUserAwake' = "true"
         /\ idleTimeout' = FALSE
    ELSE /\ out' = << >>
         /\ UNCHANGED << isUserAwake, idleTimeout >>

\* awakeUser(): the 'mousemove' listener. Gives the events it emits.
awakeUser ==
    IF notAwake
    THEN /\ out' = IF isUserAwake = "false" THEN << Ev("awake") >> ELSE << >>
         /\ isUserAwake' = "true"
         /\ idleTimeout' = TRUE
    ELSE /\ out' = << >>
         /\ UNCHANGED << isUserAwake, idleTimeout >>

(***************************************************************************)
(* The public methods.                                                     *)
(***************************************************************************)
\* Start with a setDefaults() that leaves lastWindow as it is.
StartKeepsWindow ==
    /\ checkOnce + leakedCheckTimers <= MaxLeaked
    /\ currentState' = "start"
    /\ isUserAwake' = "null"
    /\ leakedIntervals' = (leakedIntervals \/ mousePositionInterval)
    /\ mousePositionInterval' = TRUE
    /\ run("start", [tracked |-> FALSE, leaked |-> leakedCheckTimers])
    /\ out' = << Ev("start") >>
    /\ op' = Op("start")
    /\ hist' = Record([Past EXCEPT !.reset = @ \/ Counts(IF currentState = "stop"
                                                         THEN "restart" ELSE "start")])
    /\ UNCHANGED << lastWindow, idleTimeout, lastError, mouseListener, lastMousePos >>

\* start(): setDefaults(); mouseChecker.start(); run(); emit('start').
Start ==
    /\ checkOnce + leakedCheckTimers <= MaxLeaked
    /\ currentState' = "start"
    /\ isUserAwake' = "null"
    /\ lastWindow' = resetLastWindow
    /\ leakedIntervals' = (leakedIntervals \/ mousePositionInterval)
    /\ mousePositionInterval' = TRUE
    /\ run("start", [tracked |-> FALSE, leaked |-> leakedCheckTimers])
    /\ out' = << Ev("start") >>
    /\ op' = Op("start")
    /\ hist' = Record([Past EXCEPT !.reset = @ \/ Counts(IF currentState = "stop"
                                                         THEN "restart" ELSE "start")])
    /\ UNCHANGED << idleTimeout, lastError, mouseListener, lastMousePos >>

\* stop(): both timers of the stored handles are cleared, mouseChecker.stop()
\* clears the interval of the stored handle.
Stop ==
    /\ currentState' = "stop"
    /\ checkTimeout' = FALSE
    /\ idleTimeout' = FALSE
    /\ mousePositionInterval' = FALSE
    /\ out' = << Ev("stop") >>
    /\ op' = Op("stop")
    /\ hist' = Record([Past EXCEPT !.stopCalled = TRUE, !.due = -1])
    /\ UNCHANGED << lastWindow, isUserAwake, leakedCheckTimers, lastError, checkOnce,
                    outstanding, mouseListener, leakedIntervals, lastMousePos >>

\* destroy(): removeAllListeners() on the mouse checker and on the Monitor
\* (the once('check') listeners of run() are among the Monitor's listeners).
Destroy ==
    /\ mouseListener' = FALSE
    /\ checkOnce' = 0
    /\ out' = << >>
    /\ op' = Op("destroy")
    /\ hist' = Record([Past EXCEPT !.stopCalled = TRUE])
    /\ UNCHANGED << currentState, lastWindow, isUserAwake, checkTimeout,
                    leakedCheckTimers, idleTimeout, lastError, outstanding,
                    mousePositionInterval, leakedIntervals, lastMousePos >>

(***************************************************************************)
(* MouseChecker: one tick of a running interval reading position pos.      *)
(***************************************************************************)
MouseTick(pos) ==
    /\ mousePositionInterval \/ leakedIntervals
    /\ IF lastMousePos = NoPos \/ (pos[1] # lastMousePos[1] /\ pos[2] # lastMousePos[2])
       THEN /\ lastMousePos' = pos
            /\ IF mouseListener
               THEN awakeUser
               ELSE out' = << >> /\ UNCHANGED << isUserAwake, idleTimeout >>
            /\ op' = Op("mousemove")
            /\ hist' = Record([Past EXCEPT !.idle =
                                   IF ~mouseListener THEN @
                                   ELSE IF isUserAwake = "false" THEN "no"
                                   ELSE IF @ = "emitted" THEN "signalled"
                                   ELSE @,
                                   !.due = IF mouseListener /\ notAwake
                                           THEN IdleAfter ELSE @,
                                   !.since = IF mouseListener /\ isUserAwake # "true"
                                             THEN 0 ELSE @,
                                   !.credit = IF mouseListener /\ isUserAwake # "true"
                                                 /\ @ < MaxCredit
                                              THEN @ + 1 ELSE @])
       ELSE UNCHANGED << lastMousePos, isUserAwake, idleTimeout, out, op, hist >>
    /\ UNCHANGED << currentState, lastWindow, checkTimeout, leakedCheckTimers, lastError,
                    checkOnce, outstanding, mouseListener, mousePositionInterval,
                    leakedIntervals >>

(***************************************************************************)
(* Timers.                                                                 *)
(***************************************************************************)
\* IdleTimer with the resetLastWindow() of line 539 left out.
IdleTimerKeepsWindow ==
    /\ idleTimeout
    /\ hist.watch = "idle" => hist.due = 0
    /\ idleTimeout' = FALSE
    /\ isUserAwake' = "false"
    /\ out' = IdleEvents(currentState)
    /\ op' = Op("idleTimer")
    /\ hist' = Record([Past EXCEPT !.reset = @ \/ Counts(IF currentState = "start"
                                                         THEN "idle" ELSE "idleStopped"),
                                   !.idle = IF currentState = "start"
                                            THEN "emitted" ELSE @,
                                   !.due = -1])
    /\ UNCHANGED << currentState, lastWindow, checkTimeout, leakedCheckTimers, lastError,
                    checkOnce, outstanding, mouseListener, mousePositionInterval,
                    leakedIntervals, lastMousePos >>

\* idleUser(), the callback of the idle timer. In a run that keeps time it
\* runs when the delay of the timer has passed.
IdleTimer ==
    /\ idleTimeout
    /\ hist.watch = "idle" => hist.due = 0
    /\ idleTimeout' = FALSE
    /\ isUserAwake' = "false"
    /\ lastWindow' = resetLastWindow
    /\ out' = IdleEvents(currentState)
    /\ op' = Op("idleTimer")
    /\ hist' = Record([Past EXCEPT !.reset = @ \/ Counts(IF currentState = "start"
                                                         THEN "idle" ELSE "idleStopped"),
                                   !.idle = IF currentState = "start"
                                            THEN "emitted" ELSE @,
                                   !.due = -1])
    /\ UNCHANGED << currentState, checkTimeout, leakedCheckTimers, lastError, checkOnce,
                    outstanding, mouseListener, mousePositionInterval, leakedIntervals,
                    lastMousePos >>

\* The timer whose handle is in checkTimeout fires: run().
CheckTimer ==
    /\ checkTimeout
    /\ run(currentState, [tracked |-> FALSE, leaked |-> leakedCheckTimers])
    /\ out' = << >>
    /\ op' = Op("checkTimer")
    /\ hist' = Record(Past)
    /\ UNCHANGED << currentState, lastWindow, isUserAwake, idleTimeout, lastError,
                    mouseListener, mousePositionInterval, leakedIntervals, lastMousePos >>

\* A timer whose handle was overwritten fires: run().
LeakedCheckTimer ==
    /\ leakedCheckTimers > 0
    /\ run(currentState, [tracked |-> checkTimeout, leaked |-> leakedCheckTimers - 1])
    /\ out' = << >>
    /\ op' = Op("checkTimer")
    /\ hist' = Record(Past)
    /\ UNCHANGED << currentState, lastWindow, isUserAwake, idleTimeout, lastError,
                    mouseListener, mousePositionInterval, leakedIntervals, lastMousePos >>


(***************************************************************************)
(* Settlement of a Window Query: the rest of check().                      *)
(***************************************************************************)
\* The query resolves with result w (a window, or Nothing): lines 569-594.
Resolve(w) ==
    LET timers == EmitCheck(checkTimeout, leakedCheckTimers, checkOnce)
        gated == Gate
        accepted == gated /\ w # Nothing
        inactive == gated /\ w = Nothing
        reported == accepted /\ activeWindowChanged(w, lastWindow)
    IN  /\ outstanding > 0
        /\ outstanding' = outstanding - 1
        /\ checkOnce' = 0
        /\ checkTimeout' = timers.tracked
        /\ leakedCheckTimers' = timers.leaked
        /\ isUserAwake' = IF gated THEN Consumed ELSE isUserAwake
        /\ lastWindow' = IF gated THEN NextLastWindow(w, lastWindow) ELSE lastWindow
        /\ lastError' = IF accepted THEN InitialError ELSE lastError
        /\ out' = IF gated THEN << Ev("check") >> \o ChangeEvents(w, lastWindow)
                  ELSE << Ev("check") >>
        /\ op' = [name |-> "resolve", win |-> w, err |-> NoErr]
        /\ hist' = Record([Past EXCEPT !.remembered = IF accepted THEN FALSE ELSE @,
                                !.prevReject = NoErr,
                                !.prevFresh = FALSE,
                                !.prevEmitted = FALSE,
                                !.accepted = IF accepted /\ @ \in {0, 1} THEN @ + 1 ELSE @,
                                !.reset = IF accepted THEN FALSE
                                          ELSE @ \/ (inactive /\ Counts("inactive")),
                                !.first = accepted /\ hist.reset,
                                !.wcId = IF reported THEN w.id ELSE @,
                                !.repeat = reported /\ w.id = hist.wcId,
                                !.credit = IF gated /\ ChangeEvents(w, lastWindow) # << >>
                                           THEN @ - 1 ELSE @])
        /\ UNCHANGED << currentState, idleTimeout, mouseListener, mousePositionInterval,
                        leakedIntervals, lastMousePos >>

\* Reject with a setDefaults() that leaves lastWindow as it is.
RejectKeepsWindow(p) ==
    LET timers == EmitCheck(FALSE, leakedCheckTimers, checkOnce)
        isNew == stringify(p) # stringify(lastError)
    IN  /\ outstanding > 0
        /\ outstanding' = outstanding - 1
        /\ currentState' = "start"
        /\ isUserAwake' = "null"
        /\ checkOnce' = 0
        /\ checkTimeout' = timers.tracked
        /\ leakedCheckTimers' = timers.leaked
        /\ lastError' = IF isNew THEN p ELSE lastError
        /\ out' = CatchEvents(p, isNew)
        /\ op' = [name |-> "reject", win |-> Nothing, err |-> p]
        /\ hist' = Record([Past EXCEPT !.remembered = IF isNew THEN TRUE ELSE @,
                                !.prevReject = p,
                                !.prevFresh = (~hist.remembered \/ lastError # p),
                                !.prevEmitted = isNew,
                                !.accepted = 0,
                                !.beforeReject = lastWindow,
                                !.reset = @ \/ Counts("reject")])
        /\ UNCHANGED << lastWindow, idleTimeout, mouseListener, mousePositionInterval,
                        leakedIntervals, lastMousePos >>

\* The query rejects with value p: the catch block, lines 595-610.
\* setDefaults() comes first, then emit('check'), then the comparison.
Reject(p) ==
    LET timers == EmitCheck(FALSE, leakedCheckTimers, checkOnce)
        isNew == stringify(p) # stringify(lastError)
    IN  /\ outstanding > 0
        /\ outstanding' = outstanding - 1
        /\ currentState' = "start"
        /\ isUserAwake' = "null"
        /\ lastWindow' = resetLastWindow
        /\ checkOnce' = 0
        /\ checkTimeout' = timers.tracked
        /\ leakedCheckTimers' = timers.leaked
        /\ lastError' = IF isNew THEN p ELSE lastError
        /\ out' = CatchEvents(p, isNew)
        /\ op' = [name |-> "reject", win |-> Nothing, err |-> p]
        /\ hist' = Record([Past EXCEPT !.remembered = IF isNew THEN TRUE ELSE @,
                                !.prevReject = p,
                                !.prevFresh = (~hist.remembered \/ lastError # p),
                                !.prevEmitted = isNew,
                                !.accepted = 0,
                                !.beforeReject = lastWindow,
                                !.reset = @ \/ Counts("reject")])
        /\ UNCHANGED << idleTimeout, mouseListener, mousePositionInterval,
                        leakedIntervals, lastMousePos >>

Next ==
    \/ Start
    \/ Stop
    \/ Destroy
    \/ \E pos \in Positions : MouseTick(pos)
    \/ IdleTimer
    \/ CheckTimer
    \/ LeakedCheckTimer
    \/ \E w \in QueryResults : Resolve(w)
    \/ \E p \in Payloads : Reject(p)

\* One tick of the clock passes; a timer that is due fires first.
Tick ==
    /\ hist.watch = "idle"
    /\ hist.due # 0
    /\ out' = << >>
    /\ op' = Op("tick")
    /\ hist' = Record([Past EXCEPT !.due = IF @ > 0 THEN @ - 1 ELSE @,
                                   !.since = IF @ \in 0..IdleAfter THEN @ + 1 ELSE @])
    /\ UNCHANGED << currentState, lastWindow, isUserAwake, checkTimeout,
                    leakedCheckTimers, idleTimeout, lastError, checkOnce, outstanding,
                    mouseListener, mousePositionInterval, leakedIntervals, lastMousePos >>

NextTimed == Next \/ Tick

Spec == Init /\ [][Next]_vars

SpecChanges == InitChanges /\ [][Next]_vars

SpecRestart == InitRestart /\ [][Next]_vars

SpecIdleReset == InitIdleReset /\ [][Next]_vars

SpecInactive == InitInactive /\ [][Next]_vars

SpecIdle == InitIdle /\ [][NextTimed]_vars

SpecSignals == InitSignals /\ [][Next]_vars

\* The event loop runs the callback of a pending timer in the end: the idle
\* timer, once armed, fires unless it is cleared.
SpecFair == InitPlain /\ [][Next]_vars /\ WF_vars(IdleTimer)


(***************************************************************************)
(* Vocabulary of the properties.                                           *)
(***************************************************************************)
\* The step is the settlement of a Window Query (nothing else lowers the count).
Settles == outstanding' = outstanding - 1

Resolves == Settles /\ op'.name = "resolve"

Rejects == Settles /\ op'.name = "reject"

Emitted(events, name) == \E i \in DOMAIN events : events[i].ev = name

Count(events, name) == Cardinality({i \in DOMAIN events : events[i].ev = name})

ChangeNames == {"windowchange", "windoworurlchange", "windowinactive"}

(***************************************************************************)
(* C1: at most one Window Query is outstanding at any time, also when      *)
(* start() is called again while a query is outstanding.                   *)
(***************************************************************************)
C1_AtMostOneOutstanding == outstanding <= 1

(***************************************************************************)
(* C2: once stop() has made the Monitor STOPPED, only start() makes it     *)
(* RUNNING again and only start() issues a Window Query; the settlement of *)
(* a query that was outstanding at stop() does neither.                    *)
(***************************************************************************)
C2_OnlyStartLeavesStopped ==
    [][(currentState = "stop" /\ op'.name # "start")
          => (currentState' = "stop" /\ outstanding' <= outstanding)]_vars

(***************************************************************************)
(* C3: while the Monitor is STOPPED (from stop() to the next start()) no   *)
(* step emits anything but 'stop': no check, windowchange,                 *)
(* windoworurlchange, windowinactive, idle, awake or error.                *)
(***************************************************************************)
C3_SilentWhileStopped ==
    [][(currentState = "stop" /\ op'.name # "start")
          => \A i \in DOMAIN out' : out'[i].ev = "stop"]_vars

(***************************************************************************)
(* C4: a query that resolves while the gate is not Awake emits 'check'     *)
(* alone and leaves last-known-window unchanged, whatever it resolved to.  *)
(***************************************************************************)
C4_NotAwakeOnlyCheck ==
    [][(Resolves /\ isUserAwake # "true")
          => (out' = << Ev("check") >> /\ lastWindow' = lastWindow)]_vars

\* A query resolved with a window of another id than last-known-window while
\* RUNNING, and nothing but 'check' was emitted: the gate was not Awake.
C4_Witness ==
    /\ op.name = "resolve"
    /\ currentState = "start"
    /\ op.win \in Windows
    /\ op.win.id # lastWindow.id
    /\ isUserAwake \in {"null", "false"}
    /\ out = << Ev("check") >>

(***************************************************************************)
(* C5: every settlement of a Window Query while RUNNING, a resolution or a *)
(* rejection, in any gate state, emits 'check' exactly once.               *)
(***************************************************************************)
C5_CheckOncePerIteration ==
    [][(Settles /\ currentState = "start") => Count(out', "check") = 1]_vars

\* A query rejected while the Monitor was RUNNING (never stopped) and 'check'
\* was emitted, followed here by 'error'.
C5_Witness ==
    /\ op.name = "reject"
    /\ ~hist.stopCalled
    /\ Len(out) = 2
    /\ out[1] = Ev("check")
    /\ out[2] = EvErr(op.err)

(***************************************************************************)
(* C6: while RUNNING and with stop()/destroy() never called, a check timer *)
(* is pending after every settlement of a Window Query.                    *)
(***************************************************************************)
C6_LoopStaysAlive ==
    [][(Settles /\ currentState' = "start" /\ ~hist'.stopCalled)
          => (checkTimeout' \/ leakedCheckTimers' > 0)]_vars

(***************************************************************************)
(* C7: of two consecutive rejections with the same value, the first of     *)
(* which was not the remembered error, exactly one emits 'error' (the      *)
(* first); a rejection that follows a rejection with another value emits   *)
(* 'error' with its own value.                                             *)
(***************************************************************************)
C7_ErrorDedup ==
    [][Rejects =>
          /\ (hist.prevReject = op'.err /\ hist.prevFresh)
                => (hist.prevEmitted /\ ~Emitted(out', "error"))
          /\ (hist.prevReject \notin {NoErr, op'.err})
                => out' = << Ev("check"), EvErr(op'.err) >>]_vars

(***************************************************************************)
(* C8: a rejection that arrives when no error is remembered emits 'error'  *)
(* with the rejection value, whatever the value is.                        *)
(***************************************************************************)
C8_FirstRejectionEmits ==
    [][(Rejects /\ ~hist.remembered)
          => out' = << Ev("check"), EvErr(op'.err) >>]_vars

(***************************************************************************)
(* C9: every successful iteration (the query resolves, with a window or    *)
(* with none, in any gate state) clears the remembered error.              *)
(***************************************************************************)
C9_SuccessClearsError ==
    [][Resolves => (lastError' = InitialError /\ ~hist'.remembered)]_vars

(***************************************************************************)
(* C10: after a rejection, the first iteration that resolves with a window *)
(* while the gate is Awake emits 'check', then 'windoworurlchange' and     *)
(* 'windowchange' with that window.                                        *)
(***************************************************************************)
C10_FreshChangeAfterRejection ==
    [][(Resolves /\ isUserAwake = "true" /\ op'.win # Nothing /\ hist.accepted = 0)
          => out' = << Ev("check"), EvWin("windoworurlchange", op'.win),
                       EvWin("windowchange", op'.win) >>]_vars

\* The first gated iteration with a window since a rejection has just run, the
\* window is the one that was last-known-window when the rejection arrived,
\* and it was reported as a change all the same.
C10_Witness ==
    /\ op.name = "resolve"
    /\ hist.accepted = 1
    /\ op.win = hist.beforeReject
    /\ out = << Ev("check"), EvWin("windoworurlchange", op.win),
                EvWin("windowchange", op.win) >>

(***************************************************************************)
(* C11: in an iteration processed with the gate Awake and a window,        *)
(* 'windoworurlchange' is emitted iff the id or the url of the window      *)
(* differs from last-known-window, 'windowchange' iff the id differs, both *)
(* carry the window, and last-known-window becomes the window exactly when *)
(* 'windoworurlchange' is emitted.                                         *)
(***************************************************************************)
C11_ChangeEventsFollowDifference ==
    [][(Resolves /\ isUserAwake = "true" /\ op'.win # Nothing) =>
          LET w == op'.win
              idDiffers == w.id # lastWindow.id
              urlDiffers == w.url # lastWindow.url
          IN  /\ Emitted(out', "windoworurlchange") <=> (idDiffers \/ urlDiffers)
              /\ Emitted(out', "windowchange") <=> idDiffers
              /\ \A i \in DOMAIN out' :
                     out'[i].ev \in ChangeNames
                        => out'[i] \in {EvWin("windoworurlchange", w),
                                        EvWin("windowchange", w)}
              /\ lastWindow' = IF Emitted(out', "windoworurlchange")
                               THEN w ELSE lastWindow]_vars

\* A gated iteration found a window and emitted 'windoworurlchange' alone: the
\* id was that of last-known-window and the url was not.
C11_Witness ==
    /\ op.name = "resolve"
    /\ op.win \in Windows
    /\ lastWindow = op.win
    /\ out = << Ev("check"), EvWin("windoworurlchange", op.win) >>

(***************************************************************************)
(* C12: the same window is not reported twice: a 'windowchange' that       *)
(* carries the id of the 'windowchange' before it comes only after an      *)
(* idle-timer firing, a start(), a rejection or a 'windowinactive' since   *)
(* then, however many activity signals and checks occurred.                *)
(* (Under SpecChanges hist.reset counts each of these four.)               *)
(***************************************************************************)
C12_SameWindowNotReportedTwice ==
    [][\A i \in DOMAIN out' :
          (out'[i].ev = "windowchange" /\ out'[i].win.id = hist.wcId)
             => hist.reset]_vars

\* Two consecutive 'windowchange' emissions carried the same id, and
\* last-known-window had been reset between them.
C12_Witness ==
    /\ op.name = "resolve"
    /\ hist.watch = "changes"
    /\ hist.repeat
    /\ hist.first
    /\ Emitted(out, "windowchange")

(***************************************************************************)
(* C13: after the idle timer fired while RUNNING, the first iteration that *)
(* is processed with the gate Awake (an activity signal came) and resolves *)
(* with a window emits 'check', 'windoworurlchange' and 'windowchange' for *)
(* that window, whatever window was reported before going idle.            *)
(* (Under SpecIdleReset hist.reset counts the idle timer firing while      *)
(* RUNNING.)                                                               *)
(***************************************************************************)
C13_FreshChangeAfterIdle ==
    [][(Resolves /\ isUserAwake = "true" /\ op'.win # Nothing
           /\ hist.watch = "idleReset" /\ hist.reset)
          => out' = << Ev("check"), EvWin("windoworurlchange", op'.win),
                       EvWin("windowchange", op'.win) >>]_vars

\* The first gated iteration with a window since the idle timer fired while
\* RUNNING reported the id that the 'windowchange' before it had reported.
C13_Witness ==
    /\ op.name = "resolve"
    /\ hist.watch = "idleReset"
    /\ hist.first
    /\ hist.repeat
    /\ out = << Ev("check"), EvWin("windoworurlchange", op.win),
                EvWin("windowchange", op.win) >>

(***************************************************************************)
(* C14: after stop() followed by start(), the first iteration that         *)
(* resolves with a window while the gate is Awake emits 'check',           *)
(* 'windoworurlchange' and 'windowchange' for that window, be it the one   *)
(* reported before stop() or another; and the gate is not Awake when       *)
(* start() returns, whatever activity signal came before it.               *)
(* (Under SpecRestart hist.reset counts start() of a STOPPED Monitor.)     *)
(***************************************************************************)
C14_FreshChangeAfterRestart ==
    [][/\ (Resolves /\ isUserAwake = "true" /\ op'.win # Nothing
              /\ hist.watch = "restart" /\ hist.reset)
             => out' = << Ev("check"), EvWin("windoworurlchange", op'.win),
                          EvWin("windowchange", op'.win) >>
       /\ op'.name = "start" => isUserAwake' # "true"]_vars

\* The first gated iteration with a window since stop() and start() reported
\* the id that the 'windowchange' before it had reported.
C14_Witness ==
    /\ op.name = "resolve"
    /\ hist.watch = "restart"
    /\ hist.first
    /\ hist.repeat
    /\ out = << Ev("check"), EvWin("windoworurlchange", op.win),
                EvWin("windowchange", op.win) >>

(***************************************************************************)
(* C15: 'idle' is emitted at most once per idle period (an activity signal *)
(* came since the 'idle' before it), exactly idleAfter after the latest    *)
(* activity signal that arrived while the gate was Idle or Consumed (one   *)
(* that arrived while the gate was Awake does not count), and only while   *)
(* the Monitor is RUNNING.                                                 *)
(* (SpecIdle keeps time: hist.since is the time since that signal.)        *)
(***************************************************************************)
C15_IdleOncePerPeriodOnTime ==
    [][Emitted(out', "idle") =>
          /\ out' = << Ev("idle") >>
          /\ hist.idle # "emitted"
          /\ hist.since = IdleAfter
          /\ currentState = "start"
          /\ currentState' = "start"]_vars

\* The idle timer has fired while RUNNING and 'idle' was emitted, idleAfter
\* after the latest signal that counts.
C15_Witness ==
    /\ op.name = "idleTimer"
    /\ hist.watch = "idle"
    /\ hist.since = IdleAfter
    /\ currentState = "start"
    /\ out = << Ev("idle") >>

(***************************************************************************)
(* C16: 'awake' is emitted only on the first activity signal after an      *)
(* 'idle' emission ('idle' was emitted and neither a signal nor an 'awake' *)
(* came since), and never for a signal that arrives while the gate is      *)
(* Awake or Consumed, across any start()/stop() interleaving.              *)
(***************************************************************************)
C16_AwakeOnlyAfterIdle ==
    [][/\ Emitted(out', "awake") => hist.idle = "emitted"
       /\ (op'.name = "mousemove" /\ isUserAwake \in {"true", "null"})
             => ~Emitted(out', "awake")]_vars

(***************************************************************************)
(* C17: among the events of one iteration 'check' comes before every       *)
(* 'windowchange', 'windoworurlchange', 'windowinactive' and 'error', and  *)
(* every 'windowchange' comes right after a 'windoworurlchange' of the     *)
(* same iteration that carries the same window.                            *)
(***************************************************************************)
C17_CheckFirstThenUrlThenWindow ==
    \A i \in DOMAIN out :
        /\ out[i].ev \in ChangeNames \cup {"error"}
              => (i > 1 /\ out[1] = Ev("check"))
        /\ out[i].ev = "windowchange"
              => (i > 1 /\ out[i - 1] = EvWin("windoworurlchange", out[i].win))

\* An iteration has emitted all three events.
C17_Witness ==
    /\ op.name = "resolve"
    /\ Len(out) = 3
    /\ out[1].ev = "check"
    /\ out[2].ev = "windoworurlchange"
    /\ out[3].ev = "windowchange"
    /\ out[2].win = out[3].win

(***************************************************************************)
(* C18: right after stop() returns no check timer and no idle timer is     *)
(* pending, and right after start() returns no check timer or idle timer   *)
(* armed before it is still pending (start() itself arms none: the first   *)
(* check timer is armed when the first query settles).                     *)
(***************************************************************************)
C18_TimersCancelledOnStopAndStart ==
    [][(op'.name \in {"stop", "start"})
          => (~checkTimeout' /\ leakedCheckTimers' = 0 /\ ~idleTimeout')]_vars

(***************************************************************************)
(* C19: an iteration processed with the gate Awake whose query resolves    *)
(* with no window resets last-known-window to the sentinel and emits       *)
(* 'check' and 'windowinactive' (with its fixed message), no               *)
(* 'windowchange' and no 'windoworurlchange'; the next gated iteration     *)
(* that resolves with a window emits 'windowchange' for it, also when it   *)
(* is the window reported before.                                          *)
(* (Under SpecInactive hist.reset counts the gated iterations with no      *)
(* window.)                                                                *)
(***************************************************************************)
C19_InactiveResetsWindow ==
    [][/\ (Resolves /\ isUserAwake = "true" /\ op'.win = Nothing)
             => /\ out' = << Ev("check"), EvWin("windowinactive", Nothing) >>
                /\ lastWindow' = resetLastWindow
       /\ (Resolves /\ isUserAwake = "true" /\ op'.win # Nothing
              /\ hist.watch = "inactive" /\ hist.reset)
             => out' = << Ev("check"), EvWin("windoworurlchange", op'.win),
                          EvWin("windowchange", op'.win) >>]_vars

\* The first gated iteration with a window since a 'windowinactive' reported
\* the id that the 'windowchange' before it had reported.
C19_Witness ==
    /\ op.name = "resolve"
    /\ hist.watch = "inactive"
    /\ hist.first
    /\ hist.repeat
    /\ out = << Ev("check"), EvWin("windoworurlchange", op.win),
                EvWin("windowchange", op.win) >>

(***************************************************************************)
(* C20: an idle timer that fires while the Monitor is STOPPED is a no-op:  *)
(* it emits nothing and leaves the idle/awake gate and last-known-window   *)
(* as they are.                                                            *)
(***************************************************************************)
C20_IdleTimerNoOpWhileStopped ==
    [][(op'.name = "idleTimer" /\ currentState = "stop")
          => (out' = << >> /\ isUserAwake' = isUserAwake
                /\ lastWindow' = lastWindow)]_vars

(***************************************************************************)
(* C21: one activity signal enables at most one change-reporting           *)
(* iteration: in every reachable history the iterations that emitted       *)
(* 'windowchange', 'windoworurlchange' or 'windowinactive' are at most as  *)
(* many as the activity signals that moved the gate to Awake.              *)
(* (Under SpecSignals hist.credit is at most the second number less the    *)
(* first: it stops counting signals at MaxCredit and never stops counting  *)
(* iterations.)                                                            *)
(***************************************************************************)
C21_OneReportPerSignal == hist.credit >= 0

\* A reporting iteration has used up the only signal that had moved the gate
\* to Awake: the two numbers are equal.
C21_Witness ==
    /\ op.name = "resolve"
    /\ hist.watch = "signals"
    /\ \E i \in DOMAIN out : out[i].ev \in ChangeNames
    /\ hist.credit = 0
    /\ isUserAwake = "null"

(***************************************************************************)
(* C22: in every reachable state where the Monitor is RUNNING and the gate *)
(* is Awake an idle timer is pending, and whenever an idle timer is        *)
(* pending the gate is not Idle (so the idle timer never fires in the Idle *)
(* state); and from every state where the Monitor is RUNNING and the gate  *)
(* is Awake, 'idle' is emitted in the end unless stop() is called first.   *)
(***************************************************************************)
C22_AwakeHasIdleTimer ==
    /\ [](/\ (currentState = "start" /\ isUserAwake = "true") => idleTimeout
          /\ idleTimeout => isUserAwake # "false")
    /\ (currentState = "start" /\ isUserAwake = "true")
          ~> (out = << Ev("idle") >> \/ op.name = "stop")

\* An activity signal has made the gate Awake while RUNNING and armed the idle
\* timer.
C22_Witness ==
    /\ op.name = "mousemove"
    /\ currentState = "start"
    /\ isUserAwake = "true"
    /\ idleTimeout

====
